---- MODULE Spec2Model ----
(***************************************************************************)
(* A model of the two screening scripts of the repository:                 *)
(*   src/volume_reversal_strategy.py  (entry point main)                   *)
(*   src/zhangting_huimaqiang.py      (entry point run)                    *)
(* A run is: look for the name table, list the data directory, analyse     *)
(* every file in a worker pool, gather the rows, sort and write them.      *)
(*                                                                         *)
(* Prices and volumes are integers.  A float the scripts compute by a      *)
(* division is kept as an exact fraction together with the three IEEE      *)
(* specials (inf, -inf, nan) numpy produces on a division by zero, so      *)
(* every comparison is decided as numpy decides it, up to float rounding.  *)
(* Arrays are indexed from 0 as in the source (At).                        *)
(***************************************************************************)
EXTENDS Integers, Sequences, FiniteSets, TLC

\* Python's None as a function's return value, and a raised exception
None == [kind |-> "None"]

Raise == [kind |-> "Raise"]

At(arr, k) == arr[k + 1]

Max(a, b) == IF a >= b THEN a ELSE b

(***************************************************************************)
(* Float values.                                                           *)
(***************************************************************************)
Fin(n, d) == [t |-> "fin", n |-> n, d |-> d]
Inf == [t |-> "inf", n |-> 0, d |-> 0]
NInf == [t |-> "-inf", n |-> 0, d |-> 0]
NaN == [t |-> "nan", n |-> 0, d |-> 0]

\* Python's None where a float is expected
NoneF == [t |-> "None", n |-> 0, d |-> 0]

\* a / b on numpy scalars: a division by zero warns and yields inf, -inf or nan
Div(a, b) ==
  IF b > 0 THEN Fin(a, b)
  ELSE IF b < 0 THEN Fin(-a, -b)
  ELSE IF a > 0 THEN Inf
  ELSE IF a < 0 THEN NInf
  ELSE NaN

FAdd(x, y) ==
  IF x.t = "nan" \/ y.t = "nan" THEN NaN
  ELSE IF x.t = "fin" /\ y.t = "fin" THEN Fin(x.n * y.d + y.n * x.d, x.d * y.d)
  ELSE IF x.t = "fin" THEN y
  ELSE IF y.t = "fin" THEN x
  ELSE IF x.t = y.t THEN x
  ELSE NaN

\* x / k for an integer k > 0
FDivInt(x, k) == IF x.t = "fin" THEN Fin(x.n, x.d * k) ELSE x

\* x > p / q, for q > 0; every comparison with nan is False
FGt(x, p, q) ==
  IF x.t = "fin" THEN x.n * q > p * x.d
  ELSE x.t = "inf"

\* x * p / q, for p, q > 0
FScale(x, p, q) == IF x.t = "fin" THEN Fin(x.n * p, x.d * q) ELSE x

\* v > x and v < x for an integer v
IntGt(v, x) == IF x.t = "fin" THEN v * x.d > x.n ELSE x.t = "-inf"

IntLt(v, x) == IF x.t = "fin" THEN v * x.d < x.n ELSE x.t = "inf"

\* x < p / q, for q > 0
FLt(x, p, q) ==
  IF x.t = "fin" THEN x.n * q < p * x.d
  ELSE x.t = "-inf"

RECURSIVE FSum(_)
FSum(s) == IF s = <<>> THEN Fin(0, 1) ELSE FAdd(FSum(SubSeq(s, 1, Len(s) - 1)), s[Len(s)])

\* np.mean of a non-empty list
FMean(s) == FDivInt(FSum(s), Len(s))

(***************************************************************************)
(* Text: a string is a sequence of one-character strings, so that          *)
(* startswith, "in" and zfill are computed, and a formatted number is a    *)
(* sequence of code points, so that Python's string order is computed.     *)
(***************************************************************************)
StartsWith(s, p) == Len(s) >= Len(p) /\ SubSeq(s, 1, Len(p)) = p

Contains(s, p) == \E a \in 1..(Len(s) - Len(p) + 1) : SubSeq(s, a, a + Len(p) - 1) = p

DigitChar(d) == At(<<"0", "1", "2", "3", "4", "5", "6", "7", "8", "9">>, d)

RECURSIVE Str(_)
Str(n) == IF n < 10 THEN <<DigitChar(n)>> ELSE Append(Str(n \div 10), DigitChar(n % 10))

RECURSIVE Zfill(_, _)
Zfill(s, w) == IF Len(s) >= w THEN s ELSE Zfill(<<"0">> \o s, w)

DigitVal(c) == CHOOSE d \in 0..9 : DigitChar(d) = c

\* the integer pandas reads from a column of digits
RECURSIVE ParseInt(_)
ParseInt(s) ==
  IF s = <<>> THEN 0 ELSE 10 * ParseInt(SubSeq(s, 1, Len(s) - 1)) + DigitVal(s[Len(s)])

\* ord(c), for the characters of a formatted percentage
Ord(c) ==
  IF c = "%" THEN 37 ELSE IF c = "." THEN 46 ELSE IF c = "a" THEN 97
  ELSE IF c = "n" THEN 110 ELSE 48 + DigitVal(c)

\* a < b on Python strings
RECURSIVE StrLess(_, _)
StrLess(a, b) ==
  IF b = <<>> THEN FALSE
  ELSE IF a = <<>> THEN TRUE
  ELSE IF Ord(Head(a)) # Ord(Head(b)) THEN Ord(Head(a)) < Ord(Head(b))
  ELSE StrLess(Tail(a), Tail(b))

(***************************************************************************)
(* The files on disk.  A path of stock_data is a descriptor of the file's  *)
(* content: the file name stem, the number of rows, what the last rows     *)
(* look like (today), what happened earlier (hist) and whether the file    *)
(* is damaged (fault).  Every bar is flat (open = close = high = 10,       *)
(* volume 100) except around an event: a volume spike d bars before bar p, *)
(* two bars of volume sv just before p, high ph at p-1, open o and close c *)
(* at p, and close fut twenty bars after p.  Adjusted price series do      *)
(* carry zero and negative prices, so c, ph, o and fut may be <= 0.        *)
(***************************************************************************)
MinLen == 100

MaxExtraBars == 2

Lens == (MinLen - 1)..(MinLen + MaxExtraBars)

Ev(p, d, sv, c, ph, o, fut) ==
  [p |-> p, d |-> d, sv |-> sv, c |-> c, ph |-> ph, o |-> o, fut |-> fut]

TodayKinds ==
  {"hit", "hit_far", "no_active", "no_shrink", "no_reversal", "open_above",
   "price_top", "price_hi", "flat"}

TodayEvents(path) ==
  LET p == path.len - 1 IN
  CASE path.today = "hit" -> {Ev(p, 3, 30, 12, 10, 10, 10)}
    [] path.today = "hit_far" -> {Ev(p, 5, 30, 12, 10, 10, 10)}
    [] path.today = "no_active" -> {Ev(p, 6, 30, 12, 10, 10, 10)}
    [] path.today = "no_shrink" -> {Ev(p, 3, 80, 12, 10, 10, 10)}
    [] path.today = "no_reversal" -> {Ev(p, 3, 30, 10, 10, 9, 10)}
    [] path.today = "open_above" -> {Ev(p, 3, 30, 12, 10, 13, 10)}
    [] path.today = "price_top" -> {Ev(p, 3, 30, 20, 10, 10, 10)}
    [] path.today = "price_hi" -> {Ev(p, 3, 30, 21, 10, 10, 10)}
    [] OTHER -> {}

HistKinds ==
  {"none", "first", "nan_ma", "last", "last_win", "beyond", "h60", "h60none",
   "win", "win_lose", "win2_lose", "win_lose2", "zero_inf", "zero_nan",
   "zero_inf_lose"}

Lose(p) == Ev(p, 3, 30, 12, 10, 10, 10)

Win(p) == Ev(p, 3, 30, 12, 10, 10, 15)

HistEvents(path) ==
  LET n == path.len IN
  CASE path.hist = "first" -> {Lose(22)}
    [] path.hist = "nan_ma" -> {Lose(21)}
    [] path.hist = "last" -> {Lose(n - 22)}
    [] path.hist = "last_win" -> {Win(n - 22)}
    [] path.hist = "beyond" -> {Lose(n - 21)}
    [] path.hist = "h60" -> {Lose(n - 61)}
    [] path.hist = "h60none" -> {Lose(n - 60)}
    [] path.hist = "win" -> {Win(30)}
    [] path.hist = "win_lose" -> {Win(30), Lose(70)}
    [] path.hist = "win2_lose" -> {Win(30), Win(55), Lose(70)}
    [] path.hist = "win_lose2" -> {Win(30), Lose(55), Lose(70)}
    [] path.hist = "zero_inf" -> {Ev(30, 3, 30, 0, -1, -1, 10)}
    [] path.hist = "zero_nan" -> {Ev(30, 3, 30, 0, -1, -1, 0)}
    [] path.hist = "zero_inf_lose" -> {Ev(30, 3, 30, 0, -1, -1, 10), Lose(70)}
    [] OTHER -> {}

Bar(path, k) ==
  LET hs == HistEvents(path)
      es == hs \cup TodayEvents(path)
      close == IF \E e \in es : e.p = k THEN (CHOOSE e \in es : e.p = k).c
               ELSE IF \E e \in hs : e.p + 20 = k THEN (CHOOSE e \in hs : e.p + 20 = k).fut
               ELSE 10
      open == IF \E e \in es : e.p = k THEN (CHOOSE e \in es : e.p = k).o ELSE close
      high == IF \E e \in es : e.p - 1 = k THEN (CHOOSE e \in es : e.p - 1 = k).ph
              ELSE Max(open, close)
      vol == IF \E e \in es : e.p - e.d = k THEN 400
             ELSE IF \E e \in es : k \in {e.p - 1, e.p - 2}
                  THEN (CHOOSE e \in es : k \in {e.p - 1, e.p - 2}).sv
             ELSE 100
  IN [open |-> open, close |-> close, high |-> high, vol |-> vol]

Bars(path, n) == [k \in 1..n |-> Bar(path, k - 1)]

\* pd.read_csv(file_path, usecols=cols): raises on a file that does not parse
\* and on a file without one of the columns
read_csv(path) ==
  IF path.fault \in {"unparsable", "missing_column"} THEN [kind |-> "Raise", rows |-> <<>>]
  ELSE [kind |-> "frame", rows |-> Bars(path, path.len)]

\* the sum of the volumes of bars a..b
RECURSIVE VolSum(_, _, _)
VolSum(df, a, b) ==
  IF a = b THEN At(df, a).vol
  ELSE VolSum(df, a, (a + b) \div 2) + VolSum(df, (a + b) \div 2 + 1, b)

\* df['成交量'].rolling(20).mean(): NaN until the window is full
rolling20(df) ==
  [k \in 1..Len(df) |-> IF k - 1 < 19 THEN NaN ELSE Fin(VolSum(df, k - 20, k - 1), 20)]

(***************************************************************************)
(* volume_reversal_strategy.py                                             *)
(***************************************************************************)
\* (vol_arr[i-5:i] > ma20_vol[i-5:i] * 1.5).any(); a comparison with NaN is False
cond_active(df, ma20_vol, i) ==
  \E k \in (i - 5)..(i - 1) : IntGt(At(df, k).vol, FScale(At(ma20_vol, k), 15, 10))

\* vol_arr[i-1] < ma20_vol[i] * 0.7 and vol_arr[i-2] < ma20_vol[i] * 0.7
cond_shrink(df, ma20_vol, i) ==
  /\ IntLt(At(df, i - 1).vol, FScale(At(ma20_vol, i), 7, 10))
  /\ IntLt(At(df, i - 2).vol, FScale(At(ma20_vol, i), 7, 10))

\* close_arr[i] > high_arr[i-1] and close_arr[i] > df['开盘'].iloc[i]
cond_reversal(df, i) ==
  /\ At(df, i).close > At(df, i - 1).high
  /\ At(df, i).close > At(df, i).open

\* the today-check: cond_active and cond_shrink and cond_reversal
today_signal(df, ma20_vol, i) ==
  cond_active(df, ma20_vol, i) /\ cond_shrink(df, ma20_vol, i) /\ cond_reversal(df, i)

\* the same three conditions as the history loop writes them, at j
h_active(df, ma20_vol, j) ==
  \E k \in (j - 5)..(j - 1) : IntGt(At(df, k).vol, FScale(At(ma20_vol, k), 15, 10))

\* the shrink condition with a multiplier of 0.75 in the history loop only
h_shrink_loose(df, ma20_vol, j) ==
  /\ IntLt(At(df, j - 1).vol, FScale(At(ma20_vol, j), 75, 100))
  /\ IntLt(At(df, j - 2).vol, FScale(At(ma20_vol, j), 75, 100))

h_shrink(df, ma20_vol, j) ==
  /\ IntLt(At(df, j - 1).vol, FScale(At(ma20_vol, j), 7, 10))
  /\ IntLt(At(df, j - 2).vol, FScale(At(ma20_vol, j), 7, 10))

h_reversal(df, j) ==
  /\ At(df, j).close > At(df, j - 1).high
  /\ At(df, j).close > At(df, j).open

h_signal(df, ma20_vol, j) ==
  h_active(df, ma20_vol, j) /\ h_shrink(df, ma20_vol, j) /\ h_reversal(df, j)

\* the holding periods, '7天': 7, '14天': 14, '20天': 20, '60天': 60
periods == {7, 14, 20, 60}

\* the ledger with the bound off by one: future_idx < len(df) - 1
ledger_entry_short(df, signal_idx, days) ==
  LET buy_price == At(df, signal_idx).close
      future_idx == signal_idx + days
  IN IF future_idx < Len(df) - 1
     THEN Div(At(df, future_idx).close - buy_price, buy_price)
     ELSE NoneF

\* one entry of the ledger: the return after `days` bars, or None
ledger_entry(df, signal_idx, days) ==
  LET buy_price == At(df, signal_idx).close
      future_idx == signal_idx + days
  IN IF future_idx < Len(df)
     THEN Div(At(df, future_idx).close - buy_price, buy_price)
     ELSE NoneF

backtest_virtual_ledger(df, signal_idx) ==
  [days \in periods |-> ledger_entry(df, signal_idx, days)]

\* a loop that runs to the bar before the last: range(20, len(df) - 1)
scan_stop_late(df) == Len(df) - 1

\* range(20, len(df) - 21)
scan_start == 20

scan_stop(df) == Len(df) - 21

\* the indices the history loop visits, in ascending order
visited_of(df) == scan_start..(scan_stop(df) - 1)

\* the visited indices where h_active and h_shrink and h_reversal
hits_of(df, ma20_vol) == {j \in visited_of(df) : h_signal(df, ma20_vol, j)}

\* the loop testing ledger['60天'] in place of ledger['20天']
RECURSIVE profits_of_60(_, _, _, _)
profits_of_60(df, ma20_vol, a, b) ==
  IF a >= b THEN <<>>
  ELSE IF b = a + 1
  THEN IF h_signal(df, ma20_vol, a) /\ backtest_virtual_ledger(df, a)[60] # NoneF
       THEN <<backtest_virtual_ledger(df, a)[20]>>
       ELSE <<>>
  ELSE profits_of_60(df, ma20_vol, a, (a + b) \div 2)
       \o profits_of_60(df, ma20_vol, (a + b) \div 2, b)

\* what the passes for j = a, ..., b-1 append to all_history_profits, in this
\* order: the first half of the range, then the second
RECURSIVE profits_of(_, _, _, _)
profits_of(df, ma20_vol, a, b) ==
  IF a >= b THEN <<>>
  ELSE IF b = a + 1
  THEN IF h_signal(df, ma20_vol, a) /\ backtest_virtual_ledger(df, a)[20] # NoneF
       THEN <<backtest_virtual_ledger(df, a)[20]>>
       ELSE <<>>
  ELSE profits_of(df, ma20_vol, a, (a + b) \div 2)
       \o profits_of(df, ma20_vol, (a + b) \div 2, b)

\* all_history_profits after the loop
all_history_profits_of(df, ma20_vol) == profits_of(df, ma20_vol, scan_start, scan_stop(df))

\* the mean without the guard: np.mean([]) is NaN
win_rate_unguarded(profits) ==
  IF Len(profits) = 0 THEN NaN
  ELSE Fin(Cardinality({k \in 1..Len(profits) : FGt(profits[k], 0, 1)}), Len(profits))

\* np.mean([1 if p > 0 else 0 for p in all_history_profits]) if hit_count > 0 else 0
win_rate_of(profits) ==
  IF Len(profits) > 0
  THEN Fin(Cardinality({k \in 1..Len(profits) : FGt(profits[k], 0, 1)}), Len(profits))
  ELSE Fin(0, 1)

\* np.mean(all_history_profits) if hit_count > 0 else 0
avg_ret_of(profits) == IF Len(profits) > 0 THEN FMean(profits) ELSE Fin(0, 1)

\* "⭐⭐⭐⭐⭐" if win_rate > 0.6 and avg_ret > 0.03 else "⭐⭐⭐"
strength_of(win_rate, avg_ret) ==
  IF FGt(win_rate, 6, 10) /\ FGt(avg_ret, 3, 100) THEN "5 stars" ELSE "3 stars"

\* the advice ladder on win_rate: > 0.7, > 0.5, else
advice_of(win_rate) ==
  IF FGt(win_rate, 7, 10) THEN "focus"
  ELSE IF FGt(win_rate, 5, 10) THEN "small position"
  ELSE "observe only"

\* round(1000 * k / n) to the nearest integer, ties to even: the digits ':.1f' prints
Tenths(x) ==
  LET q == (1000 * x.n) \div x.d
      r == (1000 * x.n) % x.d
  IN IF 2 * r > x.d THEN q + 1
     ELSE IF 2 * r < x.d THEN q
     ELSE IF q % 2 = 0 THEN q ELSE q + 1

\* f"{win_rate*100:.1f}%", as text
format_win_rate(win_rate) ==
  IF win_rate.t = "nan" THEN <<"n", "a", "n", "%">>
  ELSE LET t == Tenths(win_rate) IN Str(t \div 10) \o <<".", DigitChar(t % 10), "%">>

\* names_dict.get(code, "未知")
Unknown == <<"?">>

dict_get(d, code) == IF code \in DOMAIN d THEN d[code] ELSE Unknown

NoLocals ==
  [visited |-> {}, hits |-> {}, ledgers |-> <<>>, profits |-> <<>>,
   hit_count |-> 0, win_rate |-> NoneF, avg_ret |-> NoneF]

NoFrame == [at |-> "", df |-> <<>>, ma20_vol |-> <<>>]

\* analyze_stock from the outcome csv of read_csv to the precomputed
\* indicators: Raise, None, or the frame to go on with
load_step(path, csv, names_dict) ==
  LET df == csv.rows
      code == path.stem
      name == dict_get(names_dict, code)
      curr_price == At(df, Len(df) - 1).close
  IN IF csv.kind = "Raise" THEN [kind |-> "Raise", df |-> <<>>, ma20_vol |-> <<>>]
     ELSE IF Len(df) < MinLen THEN [kind |-> "None", df |-> <<>>, ma20_vol |-> <<>>]
     \* a last close that is no number: the comparison raises TypeError
     ELSE IF path.fault = "bad_value" THEN [kind |-> "Raise", df |-> <<>>, ma20_vol |-> <<>>]
     ELSE IF ~(5 <= curr_price /\ curr_price <= 20)
             \/ Contains(name, <<"S", "T">>) \/ StartsWith(code, <<"3", "0">>)
     THEN [kind |-> "None", df |-> <<>>, ma20_vol |-> <<>>]
     ELSE [kind |-> "go", df |-> df, ma20_vol |-> rolling20(df)]

\* the today-check at i = len(df) - 1
today_step(df, ma20_vol) == today_signal(df, ma20_vol, Len(df) - 1)

\* the locals of the backtest: the loop's visits, hits and ledgers, the
\* profits it collected, and the statistics
backtest_locals(df, ma20_vol, profits) ==
  [visited |-> visited_of(df),
   hits |-> hits_of(df, ma20_vol),
   ledgers |-> [j \in hits_of(df, ma20_vol) |-> backtest_virtual_ledger(df, j)],
   profits |-> profits,
   hit_count |-> Len(profits),
   win_rate |-> win_rate_of(profits),
   avg_ret |-> avg_ret_of(profits)]

\* the dictionary analyze_stock returns
result_row(path, names_dict, df, loc) ==
  [kind |-> "row", code |-> path.stem, name |-> dict_get(names_dict, path.stem),
   price |-> At(df, Len(df) - 1).close,
   hit_count_col |-> loc.hit_count,
   win_rate_text |-> format_win_rate(loc.win_rate),
   strength |-> strength_of(loc.win_rate, loc.avg_ret),
   advice |-> advice_of(loc.win_rate)]

\* no except clause: the exception leaves analyze_stock
no_except(ret) == ret

\* try: ... except Exception: return None
try_except(ret) == IF ret.kind = "Raise" THEN None ELSE ret

\* analyze_stock as a whole: what it returns and the locals of its backtest
analyze_stock(path, names_dict) ==
  LET o == load_step(path, read_csv(path), names_dict)
      loc == backtest_locals(o.df, o.ma20_vol, all_history_profits_of(o.df, o.ma20_vol))
  IN IF o.kind # "go" THEN [ret |-> try_except([kind |-> o.kind]), loc |-> NoLocals]
     ELSE IF ~today_step(o.df, o.ma20_vol) THEN [ret |-> None, loc |-> NoLocals]
     ELSE [ret |-> try_except(result_row(path, names_dict, o.df, loc)), loc |-> loc]

(***************************************************************************)
(* zhangting_huimaqiang.py.  A file of this script carries its code in a   *)
(* column (code_col, read as an integer).  Its bars are flat (close 10,    *)
(* low 10, volume 300) up to a limit-up day `zt_ago` rows before the end   *)
(* (close 11, volume 1000; 0: no such day), stay at 11 afterwards, with    *)
(* an optional second, later limit-up day (close 13, volume 2000), and     *)
(* end with today's close and volume.  The rows are in date order, as the  *)
(* data model has them, so sort_values('日期') keeps every row's label      *)
(* equal to its position.                                                  *)
(***************************************************************************)
ZtMinLen == 30

ZtBar(path, k) ==
  LET n == path.len
      zt == n - path.zt_ago
      zt2 == n - path.zt2_ago
      has == path.zt_ago > 0
      has2 == path.zt2_ago > 0
      close == IF k = n - 1 /\ path.cur_close # 0 THEN path.cur_close
               ELSE IF has2 /\ k >= zt2 THEN 13
               ELSE IF has /\ k >= zt THEN 11
               ELSE 10
      vol == IF k = n - 1 /\ path.cur_vol # 0 THEN path.cur_vol
             ELSE IF has2 /\ k = zt2 THEN 2000
             ELSE IF has /\ k = zt THEN 1000
             ELSE 300
      low == IF has2 /\ k = zt2 THEN 12 ELSE IF close < 10 THEN close ELSE 10
  IN [close |-> close, low |-> low, vol |-> vol]

zt_read_csv(path) ==
  IF path.fault = "unparsable" THEN [kind |-> "Raise", rows |-> <<>>]
  ELSE [kind |-> "frame", rows |-> [k \in 1..path.len |-> ZtBar(path, k - 1)]]

\* the sum of the closes of bars a..b
RECURSIVE CloseSum(_, _, _)
CloseSum(df, a, b) ==
  IF a = b THEN At(df, a).close
  ELSE CloseSum(df, a, (a + b) \div 2) + CloseSum(df, (a + b) \div 2 + 1, b)

\* df['收盘'].rolling(w).mean().iloc[-1]
rolling_close_last(df, w) ==
  IF Len(df) < w THEN NaN ELSE Fin(CloseSum(df, Len(df) - w, Len(df) - 1), w)

\* df['收盘'].pct_change() * 100 > 9.5, at row k (NaN at row 0)
is_limit_up(df, k) ==
  /\ k >= 1
  /\ FGt(FScale(Div(At(df, k).close - At(df, k - 1).close, At(df, k - 1).close), 100, 1),
         95, 10)

\* zt_indices, after the filter len(df) - i <= 15
zt_indices_of(df) == {k \in 0..(Len(df) - 1) : is_limit_up(df, k) /\ Len(df) - k <= 15}

SetMax(S) == CHOOSE m \in S : \A k \in S : k <= m

Abs(a) == IF a < 0 THEN -a ELSE a

\* the score of the three tests on vol_ratio, MA10 and MA20
score_of(vol_ratio, curr_close, ma10, ma20) ==
    (IF FLt(vol_ratio, 25, 100) THEN 40 ELSE 0)
  + (IF ma10.t = "fin" /\ Abs(curr_close * ma10.d - ma10.n) * 100 < 2 * curr_close * ma10.d
     THEN 30 ELSE 0)
  + (IF IntGt(curr_close, ma20) THEN 20 ELSE 0)

zt_advice_of(score) ==
  IF score >= 70 THEN "focus" ELSE IF score >= 50 THEN "light position" ELSE "observe"

\* the body of analyze_stock's try block, csv being the outcome of read_csv:
\* what it returns, or Raise
zt_analyze_body(path, csv, name_map) ==
  LET df == csv.rows
      code == Zfill(Str(path.code_col), 6)
      last_close == At(df, Len(df) - 1).close
      zt_indices == zt_indices_of(df)
      zt_idx == SetMax(zt_indices)
      zt_vol == At(df, zt_idx).vol
      zt_low == At(df, zt_idx).low
      curr_vol == At(df, Len(df) - 1).vol
      curr_close == At(df, Len(df) - 1).close
      vol_ratio == Div(curr_vol, zt_vol)
      score == score_of(vol_ratio, curr_close, rolling_close_last(df, 10),
                        rolling_close_last(df, 20))
  IN IF csv.kind = "Raise" THEN Raise
     ELSE IF Len(df) < ZtMinLen THEN None
     \* df['股票代码'] raises KeyError
     ELSE IF path.fault = "missing_column" THEN Raise
     ELSE IF StartsWith(code, <<"3", "0">>) \/ StartsWith(code, <<"6", "8", "8">>) THEN None
     ELSE IF ~(5 <= last_close /\ last_close <= 20) THEN None
     ELSE IF zt_indices = {} THEN None
     \* after_zt = df.loc[zt_idx+1:] is empty
     ELSE IF zt_idx + 1 > Len(df) - 1 THEN None
     ELSE IF curr_close < zt_low THEN None
     ELSE IF FGt(vol_ratio, 35, 100) THEN None
     ELSE [kind |-> "row", code |-> code, name |-> dict_get(name_map, code),
           advice |-> zt_advice_of(score), score |-> score]

\* try: ... except Exception as e: return None
zt_analyze_stock(path, csv, name_map) == try_except(zt_analyze_body(path, csv, name_map))

(***************************************************************************)
(* The inputs of a run: stock_names.csv (when it exists) and the files of  *)
(* stock_data.  A directory holds either one file of the wide families     *)
(* (every length, today and history) or up to MaxFiles files of a small    *)
(* catalogue, in any order glob may list them.                             *)
(***************************************************************************)
MaxFiles == 2

PoolCpus == 2

Code6(n) == Zfill(Str(n), 6)

\* the rows of stock_names.csv: code as written, display name
NamesRows ==
  {[code |-> Code6(1), name |-> <<"P", "A">>],
   [code |-> Code6(2), name |-> <<"W", "K">>],
   [code |-> Code6(3), name |-> <<"*", "S", "T", "X">>],
   [code |-> Code6(600000), name |-> <<"P", "F">>],
   [code |-> Code6(300001), name |-> <<"T", "R">>],
   [code |-> Code6(688001), name |-> <<"H", "X">>]}

RevPath(code, len, today, hist, fault) ==
  [stem |-> Code6(code), len |-> len, today |-> today, hist |-> hist, fault |-> fault]

RevWide == {RevPath(1, n, t, h, "ok") : n \in Lens, t \in TodayKinds, h \in HistKinds}

RevCatalogue ==
  {RevPath(1, MinLen, "hit", "win", "ok"),
   RevPath(2, MinLen, "hit", "win_lose", "ok"),
   RevPath(600000, MinLen, "hit", "none", "ok"),
   RevPath(600001, MinLen, "hit", "win", "ok"),
   RevPath(3, MinLen, "hit", "win", "ok"),
   RevPath(300001, MinLen, "hit", "win", "ok"),
   RevPath(4, MinLen, "hit", "win", "unparsable"),
   RevPath(5, MinLen, "hit", "win", "missing_column"),
   RevPath(6, MinLen, "hit", "win", "bad_value")}

ZtPath(code, len, ago, ago2, vol, close, fault) ==
  [stem |-> Code6(code), code_col |-> code, len |-> len, zt_ago |-> ago, zt2_ago |-> ago2,
   cur_vol |-> vol, cur_close |-> close, fault |-> fault]

ZtWide ==
  {ZtPath(c, n, a, a2, v, cc, "ok") :
     c \in {1, 3}, n \in (ZtMinLen - 1)..(ZtMinLen + 1), a \in {0, 1, 2, 5, 12, 15, 16},
     a2 \in {0, 3}, v \in {0, 200, 250, 350, 400}, cc \in {0, 9, 21}}

ZtCatalogue ==
  {ZtPath(1, ZtMinLen, 5, 0, 200, 0, "ok"),
   ZtPath(3, ZtMinLen, 12, 0, 200, 0, "ok"),
   ZtPath(600000, ZtMinLen, 12, 0, 0, 0, "ok"),
   ZtPath(600001, ZtMinLen, 5, 0, 200, 0, "ok"),
   ZtPath(300001, ZtMinLen, 5, 0, 200, 0, "ok"),
   ZtPath(688001, ZtMinLen, 5, 0, 200, 0, "ok"),
   ZtPath(4, ZtMinLen, 5, 0, 200, 0, "unparsable"),
   ZtPath(5, ZtMinLen, 5, 0, 200, 0, "missing_column")}

\* the sequences of at most n distinct members of S
RECURSIVE Listings(_, _)
Listings(S, n) ==
  IF n = 0 THEN {<<>>}
  ELSE LET shorter == Listings(S, n - 1)
       IN shorter \cup {Append(l, f) : l \in {m \in shorter : Len(m) = n - 1}, f \in S}

Distinct(l) == \A a, b \in 1..Len(l) : a # b => l[a] # l[b]

Dirs(wide, catalogue) ==
  {<<f>> : f \in wide} \cup {l \in Listings(catalogue, MaxFiles) : Distinct(l)}

(***************************************************************************)
(* The state of a run.                                                     *)
(***************************************************************************)
VARIABLES
  prog,          \* the script that runs: "reversal" (main) or "zhangting" (run)
  names_exists,  \* whether stock_names.csv exists
  files,         \* what glob lists in stock_data
  pc,            \* where the entry point is: start, fanout, done, crashed
  names_dict,    \* the code -> name dictionary, once loaded
  task,          \* per file: pending, running, returned, raised
  local,         \* per task: where analyze_stock is, and its df and ma20_vol
  result,        \* per file: what its analyze_stock call gave
  valid_results, \* the rows kept after the pool has finished
  table,         \* the CSV written, if any
  stdout,        \* the lines printed
  unhandled      \* the exception that escaped the entry point, if any

vars ==
  <<prog, names_exists, files, pc, names_dict, task, local, result, valid_results, table,
    stdout, unhandled>>

NoResult == [ret |-> None, loc |-> NoLocals]

NoTable == [written |-> FALSE, rows |-> <<>>]

Init ==
  /\ prog \in {"reversal", "zhangting"}
  /\ names_exists \in BOOLEAN
  /\ files \in IF prog = "reversal" THEN Dirs(RevWide, RevCatalogue)
               ELSE Dirs(ZtWide, ZtCatalogue)
  /\ pc = "start"
  /\ names_dict = <<>>
  /\ task = [k \in 1..Len(files) |-> "pending"]
  /\ local = [k \in 1..Len(files) |-> NoFrame]
  /\ result = [k \in 1..Len(files) |-> NoResult]
  /\ valid_results = <<>>
  /\ table = NoTable
  /\ stdout = <<>>
  /\ unhandled = "none"

\* dict(zip(names_df['code'].astype(str).str.zfill(6), names_df['name'])): the
\* code column is read as integers
load_names_main ==
  [c \in {Zfill(Str(ParseInt(r.code)), 6) : r \in NamesRows} |->
     (CHOOSE r \in NamesRows : Zfill(Str(ParseInt(r.code)), 6) = c).name]

\* pd.read_csv('stock_names.csv', dtype={'code': str}); dict(zip(code, name))
load_names_run ==
  [c \in {r.code : r \in NamesRows} |-> (CHOOSE r \in NamesRows : r.code = c).name]

\* main, up to the call of Parallel
main_start ==
  /\ prog = "reversal"
  /\ pc = "start"
  /\ IF ~names_exists
     THEN /\ stdout' = Append(stdout, "error: stock_names.csv not found")
          /\ pc' = "done"
          /\ UNCHANGED names_dict
     ELSE /\ names_dict' = load_names_main
          /\ stdout' = Append(stdout, "start")
          /\ pc' = "fanout"
  /\ UNCHANGED <<prog, names_exists, files, task, local, result, valid_results, table,
                 unhandled>>

\* run, up to the pool: read_csv raises FileNotFoundError on a missing file
run_start ==
  /\ prog = "zhangting"
  /\ pc = "start"
  /\ IF ~names_exists
     THEN /\ unhandled' = "FileNotFoundError"
          /\ pc' = "crashed"
          /\ UNCHANGED names_dict
     ELSE /\ names_dict' = load_names_run
          /\ pc' = "fanout"
          /\ UNCHANGED unhandled
  /\ UNCHANGED <<prog, names_exists, files, task, local, result, valid_results, table,
                 stdout>>

\* Parallel(n_jobs=2) and Pool(): the number of worker processes
n_jobs == 2

workers == IF prog = "reversal" THEN n_jobs ELSE PoolCpus

\* the pool hands the next file, in order, to a free worker
dispatch(k) ==
  /\ pc = "fanout"
  /\ task[k] = "pending"
  /\ \A m \in 1..(k - 1) : task[m] # "pending"
  /\ Cardinality({m \in 1..Len(files) : task[m] = "running"}) < workers
  /\ task' = [task EXCEPT ![k] = "running"]
  /\ local' = [local EXCEPT ![k].at = "load"]
  /\ UNCHANGED <<prog, names_exists, files, pc, names_dict, result, valid_results, table,
                 stdout, unhandled>>

\* the call of task k ends: it returns ret, or ret is an exception that leaves
\* it; the frame records what the call had read
finish(k, ret, loc) ==
  /\ result' = [result EXCEPT ![k] = [ret |-> ret, loc |-> loc]]
  /\ task' = [task EXCEPT ![k] = IF ret.kind = "Raise" THEN "raised" ELSE "returned"]
  /\ local' = [local EXCEPT ![k].at = "end"]

\* analyze_stock of volume_reversal_strategy.py, first part: read the file,
\* filter, precompute the indicators
load(k) ==
  /\ prog = "reversal"
  /\ pc = "fanout"
  /\ task[k] = "running"
  /\ local[k].at = "load"
  /\ \E csv \in {read_csv(files[k])} :
       \E o \in {load_step(files[k], csv, names_dict)} :
         IF o.kind = "go"
         THEN /\ local' = [local EXCEPT ![k] = [at |-> "today", df |-> o.df,
                                                ma20_vol |-> o.ma20_vol]]
              /\ UNCHANGED <<task, result>>
         ELSE finish(k, try_except([kind |-> o.kind]), NoLocals)
  /\ UNCHANGED <<prog, names_exists, files, pc, names_dict, valid_results, table, stdout,
                 unhandled>>

\* second part: today's signal
check_today(k) ==
  /\ pc = "fanout"
  /\ task[k] = "running"
  /\ local[k].at = "today"
  /\ IF today_step(local[k].df, local[k].ma20_vol)
     THEN /\ local' = [local EXCEPT ![k].at = "backtest"]
          /\ UNCHANGED <<task, result>>
     ELSE finish(k, None, NoLocals)
  /\ UNCHANGED <<prog, names_exists, files, pc, names_dict, valid_results, table, stdout,
                 unhandled>>

\* third part: the history loop, the statistics and the returned dictionary
backtest(k) ==
  /\ pc = "fanout"
  /\ task[k] = "running"
  /\ local[k].at = "backtest"
  /\ \E profits \in {all_history_profits_of(local[k].df, local[k].ma20_vol)} :
       \E loc \in {backtest_locals(local[k].df, local[k].ma20_vol, profits)} :
         \E ret \in {try_except(result_row(files[k], names_dict, local[k].df, loc))} :
           finish(k, ret, loc)
  /\ UNCHANGED <<prog, names_exists, files, pc, names_dict, valid_results, table, stdout,
                 unhandled>>

\* analyze_stock of zhangting_huimaqiang.py
zt_analyze(k) ==
  /\ prog = "zhangting"
  /\ pc = "fanout"
  /\ task[k] = "running"
  /\ \E csv \in {zt_read_csv(files[k])} :
       \E ret \in {zt_analyze_stock(files[k], csv, names_dict)} : finish(k, ret, NoLocals)
  /\ UNCHANGED <<prog, names_exists, files, pc, names_dict, valid_results, table, stdout,
                 unhandled>>

\* [r for r in results if r is not None], in the order of the files
RECURSIVE not_none(_)
not_none(rs) ==
  IF rs = <<>> THEN <<>>
  ELSE LET rest == not_none(SubSeq(rs, 1, Len(rs) - 1))
       IN IF rs[Len(rs)].ret.kind = "row" THEN Append(rest, rs[Len(rs)].ret) ELSE rest

SetMin(S) == CHOOSE m \in S : \A k \in S : m <= k

InsertAt(s, pos, r) == SubSeq(s, 1, pos - 1) \o <<r>> \o SubSeq(s, pos, Len(s))

\* rows by 历史20日胜率 (a column of strings) from the greatest string to the
\* least, rows of equal strings in their input order
RECURSIVE by_win_rate_text(_)
by_win_rate_text(rows) ==
  IF rows = <<>> THEN <<>>
  ELSE LET s == by_win_rate_text(SubSeq(rows, 1, Len(rows) - 1))
           r == rows[Len(rows)]
           below == {k \in 1..Len(s) : StrLess(s[k].win_rate_text, r.win_rate_text)}
       IN InsertAt(s, IF below = {} THEN Len(s) + 1 ELSE SetMin(below), r)

\* sort_values(by="历史20日胜率", ascending=False): the default kind is
\* quicksort, which numpy runs as an insertion sort (stable) on at most 16
\* elements and which may order equal keys either way on more
sort_values(rows) ==
  IF Len(rows) <= 16 THEN {by_win_rate_text(rows)}
  ELSE {[k \in 1..Len(rows) |-> rows[p[k]]] : p \in
          {q \in Permutations(1..Len(rows)) :
             \A a, b \in 1..Len(rows) :
               a < b => ~StrLess(rows[q[a]].win_rate_text, rows[q[b]].win_rate_text)}}

\* valid_results.sort(key=lambda x: x['score'], reverse=True): stable
RECURSIVE sort_by_score(_)
sort_by_score(rows) ==
  IF rows = <<>> THEN <<>>
  ELSE LET s == sort_by_score(SubSeq(rows, 1, Len(rows) - 1))
           r == rows[Len(rows)]
           below == {k \in 1..Len(s) : s[k].score < r.score}
       IN InsertAt(s, IF below = {} THEN Len(s) + 1 ELSE SetMin(below), r)

AllFinished == \A k \in 1..Len(files) : task[k] \in {"returned", "raised"}

\* main, after Parallel returns: an exception of a task is raised again here
main_gather ==
  /\ prog = "reversal"
  /\ pc = "fanout"
  /\ AllFinished
  /\ IF \E k \in 1..Len(files) : task[k] = "raised"
     THEN /\ unhandled' = "exception of a task"
          /\ pc' = "crashed"
          /\ UNCHANGED <<valid_results, table, stdout>>
     ELSE /\ valid_results' = not_none(result)
          /\ IF valid_results' # <<>>
             THEN /\ \E res_df \in sort_values(valid_results') :
                       table' = [written |-> TRUE, rows |-> res_df]
                  /\ stdout' = Append(stdout, "signals found and saved")
             ELSE /\ stdout' = Append(stdout, "no signal today")
                  /\ UNCHANGED table
          /\ pc' = "done"
          /\ UNCHANGED unhandled
  /\ UNCHANGED <<prog, names_exists, files, names_dict, task, local, result>>

\* run, after starmap returns
run_gather ==
  /\ prog = "zhangting"
  /\ pc = "fanout"
  /\ AllFinished
  /\ IF \E k \in 1..Len(files) : task[k] = "raised"
     THEN /\ unhandled' = "exception of a task"
          /\ pc' = "crashed"
          /\ UNCHANGED <<valid_results, table, stdout>>
     ELSE /\ valid_results' = sort_by_score(not_none(result))
          /\ IF valid_results' # <<>>
             THEN /\ table' = [written |-> TRUE, rows |-> valid_results']
                  /\ stdout' = Append(stdout, "stocks found and saved")
             ELSE /\ stdout' = Append(stdout, "no stock today")
                  /\ UNCHANGED table
          /\ pc' = "done"
          /\ UNCHANGED unhandled
  /\ UNCHANGED <<prog, names_exists, files, names_dict, task, local, result>>

Next ==
  \/ main_start
  \/ run_start
  \/ \E k \in 1..Len(files) : dispatch(k)
  \/ \E k \in 1..Len(files) : load(k)
  \/ \E k \in 1..Len(files) : check_today(k)
  \/ \E k \in 1..Len(files) : backtest(k)
  \/ \E k \in 1..Len(files) : zt_analyze(k)
  \/ main_gather
  \/ run_gather

Spec == Init /\ [][Next]_vars

\* the catalogued files whose analysis fails, and some whose analysis does not
FailingAndSound ==
  {f \in RevCatalogue : f.fault # "ok" \/ f.hist = "win_lose" \/ f.stem = Code6(3)}
    \cup {f \in ZtCatalogue : f.fault # "ok" \/ f.stem = Code6(1)}

\* the runs over these files alone
CatalogueInit ==
  /\ Init
  /\ \A k \in 1..Len(files) : files[k] \in FailingAndSound

\* every step of a run is taken by a running process: none waits forever
FairSpec == CatalogueInit /\ [][Next]_vars /\ WF_vars(Next)

(***************************************************************************)
(* The properties.                                                         *)
(***************************************************************************)
Tasks == 1..Len(files)

Rows == {k \in Tasks : result[k].ret.kind = "row"}

\* the tasks of main that returned a dictionary
RevRows == IF prog = "reversal" THEN Rows ELSE {}

\* the tasks of main that got as far as the indicators
Framed == {k \in Tasks : local[k].df # <<>>}

LastIdx(k) == Len(local[k].df) - 1

Signal(k, j) == h_signal(local[k].df, local[k].ma20_vol, j)

\* x < y for two finite fractions
FinLess(x, y) == x.n * y.d < y.n * x.d

\* the position of the row of task k in the written table
PosOf(k) == CHOOSE a \in 1..Len(table.rows) : table.rows[a] = result[k].ret

ST == <<"S", "T">>

\* the name the lookup table gives the security of task k contains "ST"
NamedST(k) == \E r \in NamesRows : r.code = files[k].stem /\ Contains(r.name, ST)

\* C1: the table main writes is ordered by win_rate from the greatest number
\* to the least, and rows of equal win_rate are in the order of their files
C1_SortedByWinRate ==
  (prog = "reversal" /\ table.written) =>
    \A k, m \in Rows :
      (\/ FinLess(result[m].loc.win_rate, result[k].loc.win_rate)
       \/ (~FinLess(result[k].loc.win_rate, result[m].loc.win_rate) /\ k < m))
      => PosOf(k) < PosOf(m)

\* C5: with stock_names.csv absent, either entry point reports the error,
\* starts no task, writes nothing and ends without an unhandled exception
C5_MissingNamesReported ==
  (~names_exists /\ pc # "start") =>
    /\ unhandled = "none"
    /\ pc = "done"
    /\ stdout # <<>>
    /\ \A k \in Tasks : task[k] = "pending"
    /\ ~table.written

\* C6: in either script a security whose name in the lookup table contains
\* "ST" gives no result and is in no written table
C6_STExcluded ==
  \A k \in Tasks :
    NamedST(k) =>
      /\ result[k].ret.kind # "row"
      /\ \A a \in 1..Len(table.rows) : table.rows[a].code # files[k].stem

\* C2: at every index i >= 20 of every series read, the today-check's three
\* conditions and the history loop's three conditions give the same booleans
C2_EvaluatorSymmetry ==
  \A k \in Framed :
    \A i \in 20..LastIdx(k) :
      /\ cond_active(local[k].df, local[k].ma20_vol, i)
           = h_active(local[k].df, local[k].ma20_vol, i)
      /\ cond_shrink(local[k].df, local[k].ma20_vol, i)
           = h_shrink(local[k].df, local[k].ma20_vol, i)
      /\ cond_reversal(local[k].df, i) = h_reversal(local[k].df, i)
      /\ today_signal(local[k].df, local[k].ma20_vol, i) = Signal(k, i)

\* a call whose today-check held at the last index and whose history loop
\* found a hit, on a series where the shrink condition alone fails somewhere
C2_Witness ==
  \E k \in RevRows :
    /\ today_signal(local[k].df, local[k].ma20_vol, LastIdx(k))
    /\ result[k].loc.hits # {}
    /\ \E i \in 20..LastIdx(k) : ~Signal(k, i)

\* C3: for every series read, every index h and every holding period d, the
\* ledger's entry is None exactly when h + d >= len(df), and is otherwise
\* (close[h + d] - close[h]) / close[h]
C3_ForwardReturn ==
  \A k \in Framed :
    \A h \in 0..LastIdx(k) :
      \A d \in {7, 14, 20, 60} :
        LET r == backtest_virtual_ledger(local[k].df, h)[d]
            n == Len(local[k].df)
        IN /\ (r = NoneF) <=> (h + d >= n)
           /\ h + d < n =>
                r = Div(At(local[k].df, h + d).close - At(local[k].df, h).close,
                        At(local[k].df, h).close)

\* a historical hit whose 60-day return is None and whose 20-day return is a
\* number
C3_Witness ==
  \E k \in RevRows :
    \E j \in result[k].loc.hits :
      /\ result[k].loc.ledgers[j][60] = NoneF
      /\ result[k].loc.ledgers[j][20].t = "fin"
      /\ j + 60 >= Len(local[k].df)

\* the files of the run whose analysis does not fail
GoodFiles == SelectSeq(files, LAMBDA f : f.fault = "ok")

\* what a run over GoodFiles alone collects
GoodResults == not_none([k \in 1..Len(GoodFiles) |-> analyze_stock(GoodFiles[k], names_dict)])

C4_Safety ==
  prog = "reversal" =>
    /\ unhandled = "none"
    /\ \A k \in Tasks : task[k] # "raised"
    /\ \A k \in Tasks : (task[k] = "returned" /\ files[k].fault # "ok") => result[k].ret = None
    /\ (pc = "done" /\ names_exists) =>
         /\ valid_results = GoodResults
         /\ IF GoodResults = <<>> THEN ~table.written
            ELSE table.written /\ table.rows \in sort_values(GoodResults)

\* C4: in a run of main, a task whose analysis fails returns None, no task
\* ends with an exception, what the run collects and writes is what a run
\* without the failing files collects and writes, and the run reaches its end
C4_FailureIsolated == []C4_Safety /\ ((prog = "reversal") ~> (pc = "done"))

\* a finished run with a failing file and a file that gave a row
C4_Witness ==
  /\ prog = "reversal"
  /\ pc = "done"
  /\ table.written
  /\ \E k \in Tasks : files[k].fault # "ok" /\ task[k] = "returned" /\ result[k].ret = None
  /\ Rows # {}

\* C7: a returned dictionary with hit_count = 0 has win_rate 0 and avg_ret 0,
\* the lower strength and the observe-only advice
C7_NoHitsZeroStats ==
  \A k \in RevRows :
    result[k].loc.hit_count = 0 =>
      /\ result[k].loc.win_rate = Fin(0, 1)
      /\ result[k].loc.avg_ret = Fin(0, 1)
      /\ result[k].ret.win_rate_text = <<"0", ".", "0", "%">>
      /\ result[k].ret.strength = "3 stars"
      /\ result[k].ret.advice = "observe only"

\* today's signal held and the history loop found nothing
C7_Witness ==
  \E k \in RevRows :
    /\ result[k].loc.hits = {}
    /\ result[k].loc.hit_count = 0
    /\ result[k].ret.hit_count_col = 0

\* C8, as the code has it: the history loop visits every index from 20 to
\* len(df) - 22, and the hits are the indices of that range where the signal
\* holds
C8_ScanRange ==
  \A k \in RevRows :
    /\ result[k].loc.visited = 20..(Len(local[k].df) - 22)
    /\ result[k].loc.hits = {j \in 20..(Len(local[k].df) - 22) : Signal(k, j)}

\* C8, as stated: the history loop visits every index from 20 to len(df) - 2
C8_ScanToLenMinus2 ==
  \A k \in RevRows :
    /\ result[k].loc.visited = 20..(Len(local[k].df) - 2)
    /\ result[k].loc.hits = {j \in 20..(Len(local[k].df) - 2) : Signal(k, j)}

\* a hit at the last index visited, or a signal one index after it that is no hit
C8_Witness ==
  \E k \in RevRows :
    \/ Len(local[k].df) - 22 \in result[k].loc.hits
    \/ Signal(k, Len(local[k].df) - 21) /\ Len(local[k].df) - 21 \notin result[k].loc.hits

\* C9: a hit whose close is 0 has every return None and adds nothing to
\* all_history_profits
C9_ZeroCloseUndefined ==
  \A k \in RevRows :
    /\ \A j \in result[k].loc.hits :
         At(local[k].df, j).close = 0 =>
           \A d \in periods : result[k].loc.ledgers[j][d] = NoneF
    /\ result[k].loc.hit_count
         = Cardinality({j \in result[k].loc.hits : At(local[k].df, j).close # 0})

\* C10: every visited j has j + 20 < len(df), the 20-day return of every hit
\* is not None, the reported count is the number of visited indices where the
\* signal holds, and the last index is not visited
C10_HitsAllCounted ==
  \A k \in RevRows :
    /\ \A j \in result[k].loc.visited : j + 20 < Len(local[k].df)
    /\ \A j \in result[k].loc.hits : result[k].loc.ledgers[j][20] # NoneF
    /\ result[k].ret.hit_count_col
         = Cardinality({j \in result[k].loc.visited : Signal(k, j)})
    /\ LastIdx(k) \notin result[k].loc.visited

\* two hits counted, one of them too late for a 60-day return
C10_Witness ==
  \E k \in RevRows :
    /\ Cardinality(result[k].loc.hits) >= 2
    /\ result[k].ret.hit_count_col = Cardinality(result[k].loc.hits)
    /\ \E j \in result[k].loc.hits : result[k].loc.ledgers[j][60] = NoneF

====
